---- MODULE Spec2Model ----
(***************************************************************************)
(* cmd-nsmgr-proxy: main(), exitOnErr(), getPublishableURL(), defaultURL() *)
(* of main.go as a state machine.  The main goroutine walks through its    *)
(* startup steps; every exitOnErr call that does not exit the process      *)
(* leaves a watcher goroutine behind; the listeners (grpcutils) and the    *)
(* signal goroutine of signal.NotifyContext run beside them.               *)
(***************************************************************************)
EXTENDS Integers, Sequences, FiniteSets, TLC

\* ------------------------------------------------------------------ bounds
\* Longest config.ListenOn the process specification runs with.
MaxListeners == 3
\* Longest config.ListenOn the address-resolution specification draws.
MaxListenOn == 3

\* ------------------------------------------------------------------ URLs
\* url.URL reduced to the fields main.go and the resolver read.
MkURL(s, h, p, pa) == [scheme |-> s, host |-> h, port |-> p, path |-> pa]

\* Listen specs of the process specification (the default of Config.ListenOn
\* is unix:///listen.on.socket).
UnixDefault == MkURL("unix", "", "", "/listen.on.socket")
TcpWildcard == MkURL("tcp", "", "5006", "")

\* Listen specs of the address-resolution specification.
ResolveURLs ==
  { UnixDefault,
    TcpWildcard,
    MkURL("tcp", "0.0.0.0", "5007", ""),
    MkURL("tcp", "127.0.0.1", "5008", ""),
    MkURL("tcp", "10.0.0.9", "5009", ""),
    MkURL("udp", "", "5010", "") }

\* Interface addresses net.InterfaceAddrs() may return.
Loopback == "127.0.0.1"
LinkLocal == "169.254.0.7"
Public == "10.0.0.5"
IfAddrs == {Loopback, LinkLocal, Public}
\* The interface address sets the process specification runs with.
ProcAddrSets == {{Loopback, Public}}

\* Non-empty sequences over S of length at most n.
SeqsUpTo(S, n) == UNION { [1..k -> S] : k \in 1..n }

\* The values of config.ListenOn the process specification runs with: the
\* lists of at most n specs that alternate between UnixDefault and
\* TcpWildcard, starting with either.
ProcLists(n) ==
  { [i \in 1..k |-> IF (i + o) % 2 = 0 THEN UnixDefault ELSE TcpWildcard] :
      k \in 1..n, o \in {0, 1} }

\* ------------------------------------------------------------------ state
VARIABLES
  pc,            \* position of the main goroutine
  exitCode,      \* "running", 0 (main returned) or 1 (logrus Fatal -> os.Exit(1))
  exitCause,     \* which statement ended the process
  ListenOn,      \* config.ListenOn
  identityErr,   \* NewX509Source or GetX509SVID returned an error
  ctxErr,        \* ctx.Err(): "nil" or "canceled"
  doneCloses,    \* how many times the context's done channel was closed
  sigCh,         \* signals buffered for the NotifyContext goroutine (capacity 1)
  sigGo,         \* the NotifyContext goroutine: "waiting" or "done"
  enumErr,       \* net.InterfaceAddrs() returned an error
  addrs,         \* what net.InterfaceAddrs() returned
  listenURL,     \* result of getPublishableURL, or NoURL
  warned,        \* logger.Warn was called by getPublishableURL
  registered,    \* nsmgrproxy.NewServer(...).Register(server) has run
  idx,           \* the loop variable i of the start loop (1-based)
  started,       \* number of grpcutils.ListenAndServe calls
  bound,         \* bound[i]: the URL handed to the i-th ListenAndServe call
  lst,           \* lst[i]: listener state "none", "serving", "failed", "closed"
  errCh,         \* errCh[i]: "nil", "empty", "err", "closed"
  watcher,       \* watcher[i]: "none", "recv", "log", "cancel", "done"
  werr,          \* werr[i]: what the watcher received: "none", "err", "nil"
  logged,        \* listeners whose error has been logged (Error or Fatal)
  completed      \* "Startup completed" has been logged

vars == << pc, exitCode, exitCause, ListenOn, identityErr, ctxErr, doneCloses, sigCh,
           sigGo, enumErr, addrs, listenURL, warned, registered, idx, started,
           bound, lst, errCh, watcher, werr, logged, completed >>

NoURL == MkURL("", "", "", "")
N == Len(ListenOn)
Listeners == 1..N

ctxVars == << ctxErr, doneCloses >>
sigVars == << sigCh, sigGo >>
resolveVars == << enumErr, addrs, listenURL, warned >>
listenerVars == << lst, errCh >>
watcherVars == << watcher, werr >>
mainVars == << pc, exitCode, exitCause, identityErr >>
loopVars == << idx, started, bound >>

\* ------------------------------------------------------- address resolver
\* defaultURL: the loop over listenOn from index i on (1-based); the first
\* entry with scheme "tcp", and listenOn[1] (Go's listenOn[0]) when the loop
\* runs out.
RECURSIVE defaultURLFrom(_, _)
defaultURLFrom(listenOn, i) ==
  IF i > Len(listenOn) THEN listenOn[1]
  ELSE IF listenOn[i].scheme = "tcp" THEN listenOn[i]
  ELSE defaultURLFrom(listenOn, i + 1)

\* Faulty variant: no scan, always the first entry.
defaultURL_FirstEntry(listenOn) == listenOn[1]

\* Faulty variant: the fallback is the last entry instead of the first.
defaultURL_FallbackLast(listenOn) ==
  IF \E i \in 1..Len(listenOn) : listenOn[i].scheme = "tcp"
  THEN defaultURLFrom(listenOn, 1)
  ELSE listenOn[Len(listenOn)]

defaultURL(listenOn) == defaultURLFrom(listenOn, 1)

\* The publish rewrite (listenonurl.GetPublicURL): the outcomes it may
\* produce for representative u and interface addresses as.  Only a
\* network-routable representative whose host is unspecified, wildcard or
\* loopback is rewritten, and only its host; addresses that are neither
\* loopback nor link-local are preferred, the ranking among them is open.
IsUnspecifiedOrLoopback(h) == h \in {"", "0.0.0.0", Loopback}

Candidates(as) ==
  LET pub == { a \in as : a \notin {Loopback, LinkLocal} }
  IN  IF pub # {} THEN pub ELSE as

GetPublicURL(as, u) ==
  IF u.scheme = "tcp" /\ IsUnspecifiedOrLoopback(u.host) /\ as # {}
  THEN { [u EXCEPT !.host = a] : a \in Candidates(as) }
         \cup (IF \E a \in as : a \notin {Loopback, LinkLocal} THEN {} ELSE {u})
  ELSE {u}

\* getPublishableURL: the URLs it may return when net.InterfaceAddrs()
\* returned (as, err).
\* Faulty variant: the error branch does not return early.
getPublishableURL_RewriteOnError(listenOn, as, err) ==
  GetPublicURL(IF err THEN IfAddrs ELSE as, defaultURL(listenOn))

getPublishableURL(listenOn, as, err) ==
  LET u == defaultURL(listenOn)
  IN  IF err THEN {u} ELSE GetPublicURL(as, u)

\* ---------------------------------------------------------------- context
\* cancel(): the CancelFunc of signal.NotifyContext.  The first call sets the
\* context's error and closes its done channel; later calls return at once.
\* Faulty variant: no check for an already cancelled context.
cancel_NoGuard ==
  /\ ctxErr' = "canceled"
  /\ doneCloses' = doneCloses + 1

cancel ==
  IF ctxErr # "nil"
  THEN UNCHANGED ctxVars
  ELSE /\ ctxErr' = "canceled"
       /\ doneCloses' = doneCloses + 1

\* logrus Fatal: log the message, then os.Exit(1); deferred calls do not run.
Fatal(cause) ==
  /\ pc' = "exited"
  /\ exitCode' = 1
  /\ exitCause' = cause

Alive == pc # "exited"

\* State of the listener, channel and watcher slots for a list of n specs.
NoneOf(n, v) == [i \in 1..n |-> v]

\* ------------------------------------------------------------------- main
\* main.go:97-113: envconfig.Usage, envconfig.Process and logrus.ParseLevel;
\* each failure is a logrus Fatal.  On success config.ListenOn is set.
MainConfig ==
  /\ pc = "config"
  /\ \/ /\ Fatal("config")
        /\ UNCHANGED << ListenOn, bound, lst, errCh, watcher, werr >>
     \/ \E l \in ProcLists(MaxListeners) :
          /\ ListenOn' = l
          /\ bound' = NoneOf(Len(l), NoURL)
          /\ lst' = NoneOf(Len(l), "none")
          /\ errCh' = NoneOf(Len(l), "nil")
          /\ watcher' = NoneOf(Len(l), "none")
          /\ werr' = NoneOf(Len(l), "none")
          /\ pc' = "x509source"
          /\ UNCHANGED << exitCode, exitCause >>
  /\ UNCHANGED << identityErr, ctxVars, sigVars, resolveVars, registered, idx,
                  started, logged, completed >>

\* main.go:129-132: workloadapi.NewX509Source.
MainX509Source ==
  /\ pc = "x509source"
  /\ \/ /\ identityErr' = TRUE
        /\ Fatal("identity")
     \/ /\ pc' = "svid"
        /\ UNCHANGED << exitCode, exitCause, identityErr >>
  /\ UNCHANGED << ListenOn, ctxVars, sigVars, resolveVars, registered, loopVars,
                  listenerVars, watcherVars, logged, completed >>

\* main.go:133-137: source.GetX509SVID.
\* Faulty variant: the error is not fatal and main goes on.
MainSVID_LogOnly ==
  /\ pc = "svid"
  /\ identityErr' \in BOOLEAN
  /\ pc' = "resolve"
  /\ UNCHANGED << exitCode, exitCause >>
  /\ UNCHANGED << ListenOn, ctxVars, sigVars, resolveVars, registered, loopVars,
                  listenerVars, watcherVars, logged, completed >>

MainSVID ==
  /\ pc = "svid"
  /\ \/ /\ identityErr' = TRUE
        /\ Fatal("identity")
     \/ /\ pc' = "resolve"
        /\ UNCHANGED << exitCode, exitCause, identityErr >>
  /\ UNCHANGED << ListenOn, ctxVars, sigVars, resolveVars, registered, loopVars,
                  listenerVars, watcherVars, logged, completed >>

\* main.go:164-166 with getPublishableURL: net.InterfaceAddrs() returns an
\* error (and no addresses) or one of the address sets; on error the warning
\* is logged.
ResolveWith(addrSets) ==
  /\ pc = "resolve"
  /\ \E err \in BOOLEAN, as \in addrSets \cup {{}} :
       /\ err => as = {}
       /\ ~err => as \in addrSets
       /\ enumErr' = err
       /\ addrs' = as
       /\ warned' = err
       /\ listenURL' \in getPublishableURL(ListenOn, as, err)
  /\ pc' = "register"
  /\ UNCHANGED << exitCode, exitCause, identityErr, ListenOn, ctxVars, sigVars, registered,
                  loopVars, listenerVars, watcherVars, logged, completed >>

\* Faulty variant: the rewritten host is stored through the pointer that
\* defaultURL returned, into config.ListenOn itself.
MainResolve_InPlace ==
  /\ pc = "resolve"
  /\ \E err \in BOOLEAN, as \in ProcAddrSets \cup {{}} :
       /\ err <=> as = {}
       /\ enumErr' = err
       /\ addrs' = as
       /\ warned' = err
       /\ listenURL' \in getPublishableURL(ListenOn, as, err)
  /\ LET u == defaultURL(ListenOn)
         k == CHOOSE k \in 1..N : ListenOn[k] = u /\ \A j \in 1..(k - 1) : ListenOn[j] # u
     IN  ListenOn' = [ListenOn EXCEPT ![k] = listenURL']
  /\ pc' = "register"
  /\ UNCHANGED << exitCode, exitCause, identityErr, ctxVars, sigVars, registered,
                  loopVars, listenerVars, watcherVars, logged, completed >>

MainResolve == ResolveWith(ProcAddrSets)

\* main.go:168-185: the service chain is built with listenURL and registered.
MainRegister ==
  /\ pc = "register"
  /\ registered' = TRUE
  /\ pc' = "listen"
  /\ UNCHANGED << exitCode, exitCause, identityErr, ListenOn, ctxVars, sigVars, resolveVars,
                  loopVars, listenerVars, watcherVars, logged, completed >>

\* grpcutils.ListenAndServe for slot i: the listener is created and its error
\* channel returned; a bind failure is already on the channel on return.
ListenAndServe(i) ==
  \/ /\ lst' = [lst EXCEPT ![i] = "serving"]
     /\ errCh' = [errCh EXCEPT ![i] = "empty"]
  \/ /\ lst' = [lst EXCEPT ![i] = "failed"]
     /\ errCh' = [errCh EXCEPT ![i] = "err"]

\* main.go:187-188: the loop condition and the ListenAndServe call.
MainListenAndServe ==
  /\ pc = "listen"
  /\ idx <= N
  /\ started' = started + 1
  /\ bound' = [bound EXCEPT ![idx] = ListenOn[idx]]
  /\ ListenAndServe(idx)
  /\ pc' = "exitOnErr"
  /\ UNCHANGED << exitCode, exitCause, identityErr, ListenOn, ctxVars, sigVars, resolveVars,
                  registered, idx, watcherVars, logged, completed >>

\* A value can be received from the channel: an error is buffered, or the
\* channel is closed (the receive then yields nil).
Ready(ch) == ch \in {"err", "closed"}
Received(ch) == IF ch = "err" THEN "err" ELSE "nil"
AfterRecv(ch) == IF ch = "err" THEN "drained" ELSE ch

\* exitOnErr, main.go:196-209, as called at main.go:189: the select takes a
\* value that is ready and exits through Fatal; otherwise the watcher
\* goroutine is started and the loop goes on (i++).
\* Faulty variant: the select is missing, every channel goes to a watcher.
exitOnErr_NeverFatal ==
  /\ pc = "exitOnErr"
  /\ watcher' = [watcher EXCEPT ![idx] = "recv"]
  /\ idx' = idx + 1
  /\ pc' = IF idx + 1 > N THEN "completed" ELSE "listen"
  /\ UNCHANGED << exitCode, exitCause, errCh, werr, logged >>
  /\ UNCHANGED << identityErr, ListenOn, ctxVars, sigVars, resolveVars, registered, started,
                  bound, lst, completed >>

\* Faulty variant: a listener whose error is already there is started again
\* (once more at most) instead of ending the process.
exitOnErr_Retry ==
  /\ pc = "exitOnErr"
  /\ IF Ready(errCh[idx])
     THEN /\ IF started <= N THEN pc' = "listen" /\ UNCHANGED << exitCode, exitCause >>
                            ELSE Fatal("listener")
          /\ errCh' = [errCh EXCEPT ![idx] = AfterRecv(errCh[idx])]
          /\ logged' = IF errCh[idx] = "err" THEN logged \cup {idx} ELSE logged
          /\ UNCHANGED << idx, watcher >>
     ELSE /\ watcher' = [watcher EXCEPT ![idx] = "recv"]
          /\ idx' = idx + 1
          /\ pc' = IF idx + 1 > N THEN "completed" ELSE "listen"
          /\ UNCHANGED << exitCode, exitCause, errCh, logged >>
  /\ UNCHANGED << identityErr, ListenOn, ctxVars, sigVars, resolveVars, registered, started,
                  bound, lst, werr, completed >>

\* Faulty variant: the first call starts the watchers of all listeners.
exitOnErr_WatchAll ==
  /\ pc = "exitOnErr"
  /\ IF Ready(errCh[idx])
     THEN /\ Fatal("listener")
          /\ errCh' = [errCh EXCEPT ![idx] = AfterRecv(errCh[idx])]
          /\ logged' = IF errCh[idx] = "err" THEN logged \cup {idx} ELSE logged
          /\ UNCHANGED << idx, watcher >>
     ELSE /\ watcher' = [i \in Listeners |-> IF watcher[i] = "none" THEN "recv" ELSE watcher[i]]
          /\ idx' = idx + 1
          /\ pc' = IF idx + 1 > N THEN "completed" ELSE "listen"
          /\ UNCHANGED << exitCode, exitCause, errCh, logged >>
  /\ UNCHANGED << identityErr, ListenOn, ctxVars, sigVars, resolveVars, registered, started,
                  bound, lst, werr, completed >>

\* Faulty variant: the loop stops starting listeners once one has failed.
exitOnErr_BreakLoop ==
  /\ pc = "exitOnErr"
  /\ IF Ready(errCh[idx])
     THEN /\ Fatal("listener")
          /\ errCh' = [errCh EXCEPT ![idx] = AfterRecv(errCh[idx])]
          /\ logged' = IF errCh[idx] = "err" THEN logged \cup {idx} ELSE logged
          /\ UNCHANGED << idx, watcher >>
     ELSE /\ watcher' = [watcher EXCEPT ![idx] = "recv"]
          /\ idx' = idx + 1
          /\ pc' = IF idx + 1 > N \/ \E j \in 1..idx : lst[j] = "failed"
                   THEN "completed" ELSE "listen"
          /\ UNCHANGED << exitCode, exitCause, errCh, logged >>
  /\ UNCHANGED << identityErr, ListenOn, ctxVars, sigVars, resolveVars, registered, started,
                  bound, lst, werr, completed >>

exitOnErr ==
  /\ pc = "exitOnErr"
  /\ IF Ready(errCh[idx])
     THEN /\ Fatal("listener")
          /\ errCh' = [errCh EXCEPT ![idx] = AfterRecv(errCh[idx])]
          /\ logged' = IF errCh[idx] = "err" THEN logged \cup {idx} ELSE logged
          /\ UNCHANGED << idx, watcher >>
     ELSE /\ watcher' = [watcher EXCEPT ![idx] = "recv"]
          /\ idx' = idx + 1
          /\ pc' = IF idx + 1 > N THEN "completed" ELSE "listen"
          /\ UNCHANGED << exitCode, exitCause, errCh, logged >>
  /\ UNCHANGED << identityErr, ListenOn, ctxVars, sigVars, resolveVars, registered, started,
                  bound, lst, werr, completed >>

\* main.go:192: the loop has ended; "Startup completed" is logged.
MainStartupCompleted ==
  /\ pc = "completed"
  /\ completed' = TRUE
  /\ pc' = "wait"
  /\ UNCHANGED << exitCode, exitCause, identityErr, ListenOn, ctxVars, sigVars, resolveVars,
                  registered, loopVars, listenerVars, watcherVars, logged >>

\* main.go:193-194 and the deferred cancel of main.go:83: main blocks until
\* the context is done, then returns; the deferred cancel() runs and the
\* process exits with status 0.
\* Faulty variant: main does not wait for ctx.Done().
MainWait_NoBlock ==
  /\ pc = "wait"
  /\ cancel
  /\ pc' = "exited"
  /\ exitCode' = 0
  /\ exitCause' = "return"
  /\ UNCHANGED << identityErr, ListenOn, sigVars, resolveVars, registered, loopVars,
                  listenerVars, watcherVars, logged, completed >>

MainWait ==
  /\ pc = "wait"
  /\ ctxErr = "canceled"
  /\ cancel
  /\ pc' = "exited"
  /\ exitCode' = 0
  /\ exitCause' = "return"
  /\ UNCHANGED << identityErr, ListenOn, sigVars, resolveVars, registered, loopVars,
                  listenerVars, watcherVars, logged, completed >>

\* ------------------------------------------------------ watcher goroutines
\* main.go:205: err := <-errCh.
\* Faulty variant: the channels are drained in list order, a watcher waits
\* for the watchers of the earlier listeners.
WatcherRecv_InOrder(i) ==
  /\ Alive
  /\ watcher[i] = "recv"
  /\ \A j \in 1..(i - 1) : watcher[j] # "recv"
  /\ Ready(errCh[i])
  /\ werr' = [werr EXCEPT ![i] = Received(errCh[i])]
  /\ errCh' = [errCh EXCEPT ![i] = AfterRecv(errCh[i])]
  /\ watcher' = [watcher EXCEPT ![i] = "log"]
  /\ UNCHANGED << mainVars, ListenOn, ctxVars, sigVars, resolveVars, registered,
                  loopVars, lst, logged, completed >>

WatcherRecv(i) ==
  /\ Alive
  /\ watcher[i] = "recv"
  /\ Ready(errCh[i])
  /\ werr' = [werr EXCEPT ![i] = Received(errCh[i])]
  /\ errCh' = [errCh EXCEPT ![i] = AfterRecv(errCh[i])]
  /\ watcher' = [watcher EXCEPT ![i] = "log"]
  /\ UNCHANGED << mainVars, ListenOn, ctxVars, sigVars, resolveVars, registered,
                  loopVars, lst, logged, completed >>

\* main.go:206: log.FromContext(ctx).Error(err).
\* Faulty variant: the watcher logs with Fatal, which ends the process.
WatcherLog_Fatal(i) ==
  /\ Alive
  /\ watcher[i] = "log"
  /\ logged' = IF werr[i] = "err" THEN logged \cup {i} ELSE logged
  /\ watcher' = [watcher EXCEPT ![i] = "cancel"]
  /\ Fatal("listener")
  /\ UNCHANGED << identityErr, ListenOn, ctxVars, sigVars, resolveVars, registered,
                  loopVars, listenerVars, werr, completed >>

\* Faulty variant: the received error is not logged.
WatcherLog_Skip(i) ==
  /\ Alive
  /\ watcher[i] = "log"
  /\ watcher' = [watcher EXCEPT ![i] = "cancel"]
  /\ UNCHANGED << mainVars, ListenOn, ctxVars, sigVars, resolveVars, registered,
                  loopVars, listenerVars, werr, logged, completed >>

WatcherLog(i) ==
  /\ Alive
  /\ watcher[i] = "log"
  /\ logged' = IF werr[i] = "err" THEN logged \cup {i} ELSE logged
  /\ watcher' = [watcher EXCEPT ![i] = "cancel"]
  /\ UNCHANGED << mainVars, ListenOn, ctxVars, sigVars, resolveVars, registered,
                  loopVars, listenerVars, werr, completed >>

\* main.go:207: cancel().
\* Faulty variant: the watcher ends without calling cancel().
WatcherCancel_Skip(i) ==
  /\ Alive
  /\ watcher[i] = "cancel"
  /\ watcher' = [watcher EXCEPT ![i] = "done"]
  /\ UNCHANGED << mainVars, ListenOn, ctxVars, sigVars, resolveVars, registered,
                  loopVars, listenerVars, werr, logged, completed >>

WatcherCancel(i) ==
  /\ Alive
  /\ watcher[i] = "cancel"
  /\ cancel
  /\ watcher' = [watcher EXCEPT ![i] = "done"]
  /\ UNCHANGED << mainVars, ListenOn, sigVars, resolveVars, registered,
                  loopVars, listenerVars, werr, logged, completed >>

\* ---------------------------------------------------------------- listeners
\* A serving listener fails (serve error): the error is put on its channel,
\* which holds one value.
ListenerFail(i) ==
  /\ Alive
  /\ lst[i] = "serving"
  /\ errCh[i] = "empty"
  /\ lst' = [lst EXCEPT ![i] = "failed"]
  /\ errCh' = [errCh EXCEPT ![i] = "err"]
  /\ UNCHANGED << mainVars, ListenOn, ctxVars, sigVars, resolveVars, registered,
                  loopVars, watcherVars, logged, completed >>

\* A serving listener observes the cancelled context, leaves its accept loop
\* and closes its channel without an error.
ListenerClose(i) ==
  /\ Alive
  /\ lst[i] = "serving"
  /\ ctxErr = "canceled"
  /\ lst' = [lst EXCEPT ![i] = "closed"]
  /\ errCh' = [errCh EXCEPT ![i] = "closed"]
  /\ UNCHANGED << mainVars, ListenOn, ctxVars, sigVars, resolveVars, registered,
                  loopVars, watcherVars, logged, completed >>

\* ------------------------------------------------------------------ signals
\* One of os.Interrupt, SIGHUP, SIGTERM, SIGQUIT arrives (main.go:75-82): it
\* is put on the NotifyContext channel, which holds one signal; a signal that
\* finds the channel full is dropped.
SignalDeliver ==
  /\ Alive
  /\ sigCh' = 1
  /\ UNCHANGED << mainVars, ListenOn, ctxVars, sigGo, resolveVars, registered,
                  loopVars, listenerVars, watcherVars, logged, completed >>

\* The goroutine of signal.NotifyContext: on a signal it cancels the context;
\* when the context is done it ends.
\* Faulty variant: the signal is consumed without cancelling.
NotifyContext_NoCancel ==
  /\ Alive
  /\ sigGo = "waiting"
  /\ \/ /\ sigCh = 1
        /\ sigCh' = 0
     \/ /\ ctxErr = "canceled"
        /\ UNCHANGED sigCh
  /\ sigGo' = "done"
  /\ UNCHANGED << mainVars, ListenOn, ctxVars, resolveVars, registered,
                  loopVars, listenerVars, watcherVars, logged, completed >>

NotifyContext ==
  /\ Alive
  /\ sigGo = "waiting"
  /\ \/ /\ sigCh = 1
        /\ sigCh' = 0
        /\ cancel
     \/ /\ ctxErr = "canceled"
        /\ UNCHANGED << sigCh, ctxVars >>
  /\ sigGo' = "done"
  /\ UNCHANGED << mainVars, ListenOn, resolveVars, registered,
                  loopVars, listenerVars, watcherVars, logged, completed >>

\* ------------------------------------------------------- the specification
Init ==
  /\ pc = "config"
  /\ exitCode = "running"
  /\ exitCause = "none"
  /\ ListenOn = << >>
  /\ identityErr = FALSE
  /\ ctxErr = "nil"
  /\ doneCloses = 0
  /\ sigCh = 0
  /\ sigGo = "waiting"
  /\ enumErr = FALSE
  /\ addrs = {}
  /\ listenURL = NoURL
  /\ warned = FALSE
  /\ registered = FALSE
  /\ idx = 1
  /\ started = 0
  /\ bound = << >>
  /\ lst = << >>
  /\ errCh = << >>
  /\ watcher = << >>
  /\ werr = << >>
  /\ logged = {}
  /\ completed = FALSE

Main ==
  \/ MainConfig
  \/ MainX509Source
  \/ MainSVID
  \/ MainResolve
  \/ MainRegister
  \/ MainListenAndServe
  \/ exitOnErr
  \/ MainStartupCompleted
  \/ MainWait

Watcher(i) == WatcherRecv(i) \/ WatcherLog(i) \/ WatcherCancel(i)

Listener(i) == ListenerFail(i) \/ ListenerClose(i)

Next ==
  \/ Main
  \/ \E i \in Listeners : Watcher(i)
  \/ \E i \in Listeners : Listener(i)
  \/ SignalDeliver
  \/ NotifyContext

Spec == Init /\ [][Next]_vars

\* The address resolver on its own: main has reached main.go:164 with any
\* non-empty config.ListenOn of at most MaxListenOn specs, and
\* net.InterfaceAddrs() may return any set of the interface addresses.
ResolveInit ==
  /\ pc = "resolve"
  /\ exitCode = "running"
  /\ exitCause = "none"
  /\ ListenOn \in SeqsUpTo(ResolveURLs, MaxListenOn)
  /\ identityErr = FALSE
  /\ ctxErr = "nil"
  /\ doneCloses = 0
  /\ sigCh = 0
  /\ sigGo = "waiting"
  /\ enumErr = FALSE
  /\ addrs = {}
  /\ listenURL = NoURL
  /\ warned = FALSE
  /\ registered = FALSE
  /\ idx = 1
  /\ started = 0
  /\ bound = NoneOf(Len(ListenOn), NoURL)
  /\ lst = NoneOf(Len(ListenOn), "none")
  /\ errCh = NoneOf(Len(ListenOn), "nil")
  /\ watcher = NoneOf(Len(ListenOn), "none")
  /\ werr = NoneOf(Len(ListenOn), "none")
  /\ logged = {}
  /\ completed = FALSE

Resolve == ResolveWith(SUBSET IfAddrs)

SpecResolve == ResolveInit /\ [][Resolve]_vars

\* The Go scheduler runs every goroutine that can take a step: main, each
\* watcher and the NotifyContext goroutine.  Listeners and signals are the
\* environment and are under no obligation.
FairSpec ==
  /\ Spec
  /\ WF_vars(Main)
  /\ \A i \in 1..MaxListeners : WF_vars(i \in Listeners /\ Watcher(i))
  /\ WF_vars(NotifyContext)

\* ------------------------------------------------------------------ claims
HasTcp(l) == \E k \in 1..Len(l) : l[k].scheme = "tcp"

\* The first tcp entry of l in list order, stated without the scan.
FirstTcp(l) ==
  CHOOSE k \in 1..Len(l) :
    /\ l[k].scheme = "tcp"
    /\ \A j \in 1..(k - 1) : l[j].scheme # "tcp"

\* The representative of the tie-break: the first tcp entry, else the first.
Representative(l) == IF HasTcp(l) THEN l[FirstTcp(l)] ELSE l[1]

LoopLeft == pc \in {"completed", "wait"} \/ exitCause = "return"

\* C1 as stated: a failure of listener i never prevents the start attempt of
\* listener i+1, so a process that has started a listener never ends before
\* all N listeners of the list have been started.
C1_AllStartedDespiteFailure ==
  (pc = "exited" /\ started >= 1) => started = N

\* C1 (amended): the start loop starts the listeners in list order and goes
\* on to the next one whenever exitOnErr's poll of the listener just started
\* finds no value on its channel, whatever has failed since; the loop is left
\* early only by exitOnErr's Fatal, taken at the listener just started when a
\* value is already on its channel.  When the loop is left normally, all N
\* listeners have been started.
C1_StartLoop ==
  /\ LoopLeft => (started = N /\ \A i \in Listeners : watcher[i] # "none")
  /\ exitCause = "listener" =>
       /\ idx = started
       /\ watcher[idx] = "none"
       /\ errCh[idx] \in {"drained", "closed"}
       /\ \A i \in 1..(idx - 1) : watcher[i] # "none"
  /\ (pc = "exited" /\ started >= 1 /\ started < N) => exitCause = "listener"
  /\ pc \in {"listen", "exitOnErr"} =>
       /\ started = (IF pc = "listen" THEN idx - 1 ELSE idx)
       /\ \A i \in Listeners : (lst[i] # "none") <=> (i <= started)

\* Listener 1 of 3 has failed, its failure went to its watcher, and all three
\* listeners have been started.
C1_Witness ==
  /\ N = 3
  /\ started = 3
  /\ lst[1] = "failed"
  /\ werr[1] = "err"
  /\ lst[2] = "serving"
  /\ lst[3] = "serving"

\* C2: the context is cancelled at most once (its done channel is closed at
\* most once, so no cancel() panics on a double close), a cancelled context
\* stays cancelled and later cancel() calls change nothing, and a watcher
\* that has reached its cancel() call is never blocked there.
C2_SingleCancellation ==
  /\ [](doneCloses <= 1)
  /\ []((ctxErr = "canceled") <=> (doneCloses = 1))
  /\ [](\A i \in Listeners : (Alive /\ watcher[i] = "cancel") => ENABLED WatcherCancel(i))
  /\ [][ctxErr = "canceled" => (ctxErr' = "canceled" /\ doneCloses' = doneCloses)]_vars

\* Two listeners have failed, both watchers have called cancel(), and a
\* signal has been handled as well.
C2_Witness ==
  /\ N >= 2
  /\ werr[1] = "err" /\ watcher[1] = "done"
  /\ werr[2] = "err" /\ watcher[2] = "done"
  /\ sigGo = "done"
  /\ doneCloses = 1

\* C3: once the process is Running (main waits on ctx.Done()), an error on
\* any listener's channel leads to the context being cancelled and to the
\* process exiting by main's return.
C3_FirstErrorExits ==
  (pc = "wait" /\ \E i \in Listeners : errCh[i] = "err")
    ~> (pc = "exited" /\ exitCause = "return" /\ ctxErr = "canceled")

\* Two listeners were serving, listener 1 failed, listener 2 never reported an
\* error, no signal arrived, and the process has exited.
C3_Witness ==
  /\ N = 2
  /\ pc = "exited"
  /\ exitCause = "return"
  /\ werr[1] = "err"
  /\ lst[2] # "failed"
  /\ werr[2] # "err"
  /\ sigCh = 0
  /\ sigGo = "waiting"

\* C4 as stated: a failure during startup is observed in the start loop and
\* not by a background watcher, so while main still has a listener to start
\* no watcher has received an error.
C4_SyncObservation ==
  \A i \in Listeners : pc = "listen" => werr[i] # "err"

\* C4 (amended): a value that is on the listener's channel when exitOnErr
\* polls it right after ListenAndServe is observed synchronously: the
\* process ends there through Fatal with status 1, no watcher is started for
\* that listener and "Startup completed" is not logged.  A failure reported
\* after the poll is left to the listener's watcher.
C4_SyncFatal ==
  /\ [](exitCause = "listener" =>
          /\ pc = "exited"
          /\ exitCode = 1
          /\ ~completed
          /\ watcher[idx] = "none")
  /\ [][(pc = "exitOnErr" /\ pc' # pc) =>
          IF Ready(errCh[idx])
          THEN exitCause' = "listener" /\ watcher' = watcher
          ELSE pc' # "exited" /\ watcher'[idx] = "recv"]_vars

\* Listener 2 of 3 failed at bind time and the process has exited from the
\* start loop.
C4_Witness ==
  /\ N = 3
  /\ exitCause = "listener"
  /\ started = 2
  /\ lst[2] = "failed"
  /\ 2 \in logged

\* C5 as stated: every process exit caused by a fatal error is preceded by
\* the cancellation of the root context.
C5_FatalExitAfterCancel ==
  (pc = "exited" /\ exitCode = 1) => ctxErr = "canceled"

\* C5 (amended): only a listener error received by a background watcher
\* surfaces through the cancellation signal: main returns (status 0) only
\* when the context is already cancelled.  A config error, an identity error
\* and a listener error found by exitOnErr's poll end the process directly
\* through Fatal (status 1), whether or not the context is cancelled.
C5_ShutdownPaths ==
  /\ [](pc = "exited" =>
          \/ exitCause = "return" /\ exitCode = 0 /\ completed
          \/ exitCause \in {"config", "identity", "listener"} /\ exitCode = 1 /\ ~completed)
  /\ [][(pc' = "exited" /\ pc # "exited" /\ exitCause' = "return") =>
          ctxErr = "canceled"]_vars
  /\ [][(pc' = "exited" /\ pc # "exited" /\ exitCause' # "return") =>
          UNCHANGED ctxVars]_vars

\* A listener error went through its watcher and the cancellation, and main
\* has returned.
C5_Witness ==
  /\ pc = "exited"
  /\ exitCause = "return"
  /\ \E i \in Listeners : werr[i] = "err" /\ watcher[i] = "done"

\* C6: when identity acquisition fails the process exits fatally before the
\* start loop: no listener start was attempted and the service chain was
\* not registered.
C6_IdentityFailure ==
  identityErr =>
    /\ pc = "exited"
    /\ exitCode = 1
    /\ started = 0
    /\ ~registered
    /\ \A i \in Listeners : lst[i] = "none" /\ bound[i] = NoURL

\* Identity acquisition has failed.
C6_Witness ==
  /\ identityErr
  /\ pc = "exited"
  /\ N >= 1

C8_FirstTcpChosen ==
  (pc = "register" /\ ~enumErr /\ HasTcp(ListenOn)) =>
    LET u == ListenOn[FirstTcp(ListenOn)]
    IN  /\ listenURL.scheme = "tcp"
        /\ listenURL.port = u.port
        /\ listenURL.path = u.path
        /\ listenURL.host = u.host \/ listenURL.host \in addrs

\* A tcp entry preceded by two non-tcp entries was chosen and its host
\* rewritten.
C8_Witness ==
  /\ pc = "register"
  /\ ~enumErr
  /\ N = 3
  /\ ListenOn[1].scheme = "unix"
  /\ ListenOn[2].scheme = "udp"
  /\ ListenOn[3] = TcpWildcard
  /\ listenURL = MkURL("tcp", Public, "5006", "")

\* C9: with no tcp entry in the list the published URL is the first entry,
\* unmodified, whatever its scheme and the interface addresses.
C9_FirstEntryUnmodified ==
  (pc = "register" /\ ~HasTcp(ListenOn)) => listenURL = ListenOn[1]

\* A list without tcp entries, its first entry a wildcard-host udp spec, was
\* resolved with all interface addresses present.
C9_Witness ==
  /\ pc = "register"
  /\ ~enumErr
  /\ addrs = IfAddrs
  /\ N = 2
  /\ ListenOn[1].scheme = "udp"
  /\ ListenOn[2] = UnixDefault
  /\ listenURL = ListenOn[1]

\* C10: when interface enumeration fails, the published URL is the
\* representative exactly as configured, a warning is logged, and the
\* resolve step does not end the process: main goes on to registration.
C10_EnumerationFailure ==
  /\ [](enumErr => (warned /\ listenURL = Representative(ListenOn)))
  /\ [](warned => enumErr)
  /\ [][pc = "resolve" => pc' \in {"resolve", "register"}]_vars
  /\ [][(pc = "register" /\ pc' # pc) => (pc' = "listen" /\ registered')]_vars

\* Enumeration failed for a list whose representative has a wildcard host,
\* and startup went on through registration and the start of every listener.
C10_Witness ==
  /\ enumErr
  /\ listenURL = TcpWildcard
  /\ registered
  /\ started = N
  /\ completed

\* C11: computing the publishable address leaves config.ListenOn as it was
\* configured, and the start loop hands ListenAndServe exactly the entries of
\* that list, in list order, whatever URL was published.
C11_ResolutionObservational ==
  /\ [][pc # "config" => ListenOn' = ListenOn]_vars
  /\ [][pc = "resolve" => UNCHANGED << loopVars, listenerVars >>]_vars
  /\ [](\A i \in Listeners : bound[i] = IF i <= started THEN ListenOn[i] ELSE NoURL)

\* The representative's host was rewritten for publication, and all three
\* listeners were started on the configured specs.
C11_Witness ==
  /\ N = 3
  /\ started = 3
  /\ ListenOn[1] = TcpWildcard
  /\ listenURL = MkURL("tcp", Public, "5006", "")
  /\ bound = ListenOn
  /\ \A i \in Listeners : bound[i] # listenURL

\* C12 as stated: every listener error that has been reported on an error
\* channel is logged before the process exits.
C12_EveryErrorLogged ==
  pc = "exited" => \A i \in Listeners : lst[i] = "failed" => i \in logged

\* C12 (amended): a listener error is logged before the cancellation or the
\* exit that it triggers itself: a watcher that has reached or passed its
\* cancel() call has logged the error it received, and exitOnErr's Fatal has
\* logged the error it found.  Only reported errors are logged; an error that
\* is unlogged when the process exits is one that has not been handled up to
\* the log call: it was never polled by exitOnErr, and its watcher, if it
\* exists, has not got past main.go:206.
C12_TriggerLogged ==
  /\ \A i \in Listeners :
       (watcher[i] \in {"cancel", "done"} /\ werr[i] = "err") => i \in logged
  /\ (exitCause = "listener" /\ lst[idx] = "failed") => idx \in logged
  /\ \A i \in logged : i \in Listeners /\ lst[i] = "failed"
  /\ pc = "exited" =>
       \A i \in Listeners :
         (lst[i] = "failed" /\ i \notin logged) =>
           /\ watcher[i] \in {"none", "recv", "log"}
           /\ ~(exitCause = "listener" /\ idx = i)

\* Two listeners failed; the first error was logged and led to the exit, the
\* second was never logged.
C12_Witness ==
  /\ pc = "exited"
  /\ exitCause = "return"
  /\ N >= 2
  /\ lst[1] = "failed" /\ 1 \in logged /\ watcher[1] = "done"
  /\ lst[2] = "failed" /\ 2 \notin logged

\* C13: a value that can be received is never kept from its watcher, and a
\* watcher past its receive is never blocked, whatever the other listeners
\* and watchers do and whether or not the context is cancelled; a serving
\* listener can always put its error on its channel; a watcher step touches
\* only its own listener's channel and watcher slot; a watcher that has
\* received a value never receives again; the context's done channel is never
\* closed twice.
C13_NoBlockNoPanic ==
  /\ [](\A i \in Listeners :
          (Alive /\ watcher[i] = "recv" /\ Ready(errCh[i])) => ENABLED WatcherRecv(i))
  /\ [](\A i \in Listeners :
          (Alive /\ watcher[i] \in {"log", "cancel"}) => ENABLED Watcher(i))
  /\ [](\A i \in Listeners :
          (Alive /\ lst[i] = "serving") => ENABLED ListenerFail(i))
  /\ [](doneCloses <= 1)
  /\ [][\A i \in Listeners :
          (watcher[i] # "none" /\ watcher'[i] # watcher[i]) =>
            \A j \in Listeners \ {i} : errCh'[j] = errCh[j] /\ watcher'[j] = watcher[j]]_vars
  /\ [][\A i \in Listeners :
          watcher[i] \in {"log", "cancel", "done"} =>
            /\ watcher'[i] # "recv"
            /\ werr'[i] = werr[i]
            /\ errCh'[i] = errCh[i] \/ lst'[i] # lst[i]]_vars

\* Listener 1's error cancelled the context; afterwards listener 2's error
\* and listener 3's channel closure were received by their own watchers,
\* which went through log and cancel() while the process was still running.
C13_Witness ==
  /\ N = 3
  /\ Alive
  /\ sigCh = 0 /\ sigGo = "waiting"
  /\ werr[1] = "err" /\ watcher[1] = "done"
  /\ werr[2] = "err" /\ watcher[2] = "done"
  /\ lst[3] = "closed" /\ werr[3] = "nil" /\ watcher[3] = "done"
  /\ doneCloses = 1

\* C14 as stated: no listener's channel is polled or watched until the start
\* of all N listeners has been requested.
C14_WatchAfterAllStarts ==
  (pc = "exitOnErr" \/ \E i \in Listeners : watcher[i] # "none") => started = N

\* C14 (amended): a listener's channel is polled, and then watched, right
\* after that listener's own start and before the next listener is started:
\* the poll is on the channel of the listener started last, a watcher exists
\* only for a started listener, and when main is about to start listener idx
\* the channels of listeners 1..idx-1 are already watched.
C14_WatchFollowsOwnStart ==
  /\ \A i \in Listeners :
       watcher[i] # "none" => (i <= started /\ lst[i] # "none" /\ errCh[i] # "nil")
  /\ pc = "exitOnErr" => (idx = started /\ errCh[idx] # "nil" /\ watcher[idx] = "none")
  /\ pc = "listen" =>
       /\ idx = started + 1
       /\ \A i \in 1..(idx - 1) : watcher[i] # "none"

\* Listener 1 of 3 is watched while listeners 2 and 3 have not been started.
C14_Witness ==
  /\ N = 3
  /\ pc = "listen"
  /\ started = 1
  /\ watcher[1] = "recv"
  /\ lst[2] = "none"
  /\ lst[3] = "none"

\* C15: each listen spec is started at most once (a ListenAndServe call is
\* always for a listener not started before, so at most N calls are made), a
\* failed or closed listener keeps that state, a started listener is never
\* unstarted, and a listener failure leads to the process exiting.
C15_NoRestart ==
  /\ [](started <= N)
  /\ [][started' # started =>
          /\ started' = started + 1
          /\ lst[started'] = "none"
          /\ bound[started'] = NoURL]_vars
  /\ [][\A i \in Listeners :
          /\ lst[i] \in {"failed", "closed"} => lst'[i] = lst[i]
          /\ lst[i] # "none" => (lst'[i] # "none" /\ bound'[i] = bound[i])]_vars
  /\ (\E i \in Listeners : lst[i] = "failed") ~> (pc = "exited")

\* Listener 1 of 3 failed while the two others were serving; nothing was
\* restarted and the process has exited.
C15_Witness ==
  /\ N = 3
  /\ pc = "exited"
  /\ started = 3
  /\ lst[1] = "failed"
  /\ lst[2] = "serving"
  /\ lst[3] = "serving"

\* The lifecycle controller's states once startup has completed.
Running == completed /\ pc = "wait" /\ ctxErr = "nil"
ShuttingDown == completed /\ pc = "wait" /\ ctxErr = "canceled"
Exited == completed /\ pc = "exited"

\* C16: once "Startup completed" has been logged the process is Running,
\* ShuttingDown or Exited and only moves forward through them: it exits only
\* from ShuttingDown, by main's return, and never leaves Exited or returns
\* to Running.  No step of a watcher goroutine ends the process: a watcher
\* only receives, logs and cancels.
C16_Lifecycle ==
  /\ [](completed => (Running \/ ShuttingDown \/ Exited))
  /\ [][Running => (Running' \/ ShuttingDown')]_vars
  /\ [][ShuttingDown => (ShuttingDown' \/ (Exited' /\ exitCause' = "return" /\ exitCode' = 0))]_vars
  /\ [][Exited => Exited']_vars
  /\ [][\A i \in Listeners :
          (watcher[i] # "none" /\ watcher'[i] # watcher[i]) =>
            (pc' = pc /\ exitCode' = exitCode /\ exitCause' = exitCause)]_vars

\* Startup completed with one listener, the listener failed, its watcher
\* logged and cancelled, and only then main returned; no signal was involved.
C16_Witness ==
  /\ N = 1
  /\ Exited
  /\ werr[1] = "err"
  /\ watcher[1] = "done"
  /\ 1 \in logged
  /\ sigCh = 0
  /\ sigGo = "waiting"

====
